---------------------------- MODULE Spec2Model ----------------------------
(***************************************************************************)
(* Model of src/main.py (subscription-chaser): main() and the functions it *)
(* calls, load_exclusions, load_chase_statements, clean_data,              *)
(* find_recurring_charges, top_vendors_by_spending, most_expensive_charges *)
(* and flag_subscription_keywords.                                         *)
(*                                                                         *)
(* Strings are TLA+ strings (sequences of characters).  Amounts are        *)
(* integers in cents.  A DataFrame is a record [columns, rows]: the        *)
(* sequence of column names and the sequence of rows, a row being the      *)
(* tuple of its cells in column order.  A calendar date is <<y, m, d>>.    *)
(* A JSON value is a record tagged t = "null", "number" (n), "string" (s), *)
(* "array" (a, a sequence of JSON values) or "object" (o, a function from  *)
(* keys to JSON values).  A call that can raise returns [exc, val]: exc is *)
(* "none" or the name of the Python exception.                             *)
(***************************************************************************)
EXTENDS Integers, Sequences, FiniteSets, TLC

VARIABLES
    pc,                     \* the statement of main() that runs next
    raised,                 \* "none", or the exception that ended the run
    exclusion_file,         \* the file at exclusion_file
    folder,                 \* the *.csv files of folder_path, in glob order
    exclusions,             \* main: exclusions
    df,                     \* main: df
    df_recurring,           \* main: df_recurring
    recurring_charges,      \* main: recurring_charges
    df_spending,            \* main: df_spending
    top_vendors,            \* main: top_vendors
    expensive_charges,      \* main: expensive_charges
    flagged_subscriptions,  \* main: flagged_subscriptions
    other_file,             \* the file of the other of two runs on the same folder
    other                   \* what the first of the two runs left behind

vars == <<pc, raised, exclusion_file, folder, exclusions, df, df_recurring,
          recurring_charges, df_spending, top_vendors, expensive_charges,
          flagged_subscriptions, other_file, other>>

---------------------------------------------------------------------------
(* Python values *)

Ok(v)      == [exc |-> "none", val |-> v]
Raise(e)   == [exc |-> e, val |-> <<>>]
None       == <<>>

Range(s)   == {s[i] : i \in 1..Len(s)}

UpperCase  == "ABCDEFGHIJKLMNOPQRSTUVWXYZ"
LowerCase  == "abcdefghijklmnopqrstuvwxyz"

\* str.lower on one character
LowerOf ==
    [c \in {SubSeq(UpperCase, i, i) : i \in 1..Len(UpperCase)} |->
        LET i == CHOOSE j \in 1..Len(UpperCase) : SubSeq(UpperCase, j, j) = c
        IN  SubSeq(LowerCase, i, i)]

LowerChar(c) == IF c \in DOMAIN LowerOf THEN LowerOf[c] ELSE c

RECURSIVE str_lower(_)
str_lower(s) ==
    IF s = "" THEN "" ELSE LowerChar(SubSeq(s, 1, 1)) \o str_lower(Tail(s))

RECURSIVE str_strip(_)
str_strip(s) ==
    IF s = "" THEN ""
    ELSE IF SubSeq(s, 1, 1) = " " THEN str_strip(Tail(s))
    ELSE IF SubSeq(s, Len(s), Len(s)) = " " THEN str_strip(SubSeq(s, 1, Len(s) - 1))
    ELSE s

\* s.replace(" ", "_")
RECURSIVE str_replace_space(_)
str_replace_space(s) ==
    IF s = "" THEN ""
    ELSE (IF SubSeq(s, 1, 1) = " " THEN "_" ELSE SubSeq(s, 1, 1))
         \o str_replace_space(Tail(s))

\* Python's `k in x` on strings
str_contains(x, k) ==
    \E i \in 0..(Len(x) - Len(k)) : SubSeq(x, i + 1, i + Len(k)) = k

---------------------------------------------------------------------------
(* JSON values, as json.load returns them *)

JNull        == [t |-> "null"]
JNumber(n)   == [t |-> "number", n |-> n]
JString(s)   == [t |-> "string", s |-> s]
JArray(s)    == [t |-> "array", a |-> s]
JObject(f)   == [t |-> "object", o |-> f]
JEmptyObject == JObject(<<>>)

\* bool(x), as `x or []` tests it
Truthy(j) ==
    CASE j.t = "null"   -> FALSE
      [] j.t = "number" -> j.n # 0
      [] j.t = "string" -> j.s # ""
      [] j.t = "array"  -> j.a # <<>>
      [] j.t = "object" -> DOMAIN j.o # {}

\* x or []
OrEmptyList(j) == IF Truthy(j) THEN j ELSE JArray(<<>>)

\* dict.get(key, default); on anything but a dict, AttributeError
dict_get(j, key, default) ==
    IF j.t # "object" THEN Raise("AttributeError")
    ELSE Ok(IF key \in DOMAIN j.o THEN j.o[key] ELSE default)

\* set(map(str.lower, x))
LowerSet(j) ==
    CASE j.t = "array"  ->
            IF \A i \in 1..Len(j.a) : j.a[i].t = "string"
            THEN Ok({str_lower(j.a[i].s) : i \in 1..Len(j.a)})
            ELSE Raise("TypeError")
      [] j.t = "string" -> Ok({str_lower(SubSeq(j.s, i, i)) : i \in 1..Len(j.s)})
      [] j.t = "object" -> Ok({str_lower(k) : k \in DOMAIN j.o})
      [] OTHER          -> Raise("TypeError")

\* set(x): the elements must be hashable
ValueSet(j) ==
    CASE j.t = "array"  ->
            IF \A i \in 1..Len(j.a) : j.a[i].t \in {"null", "number", "string"}
            THEN Ok(Range(j.a))
            ELSE Raise("TypeError")
      [] j.t = "string" -> Ok({JString(SubSeq(j.s, i, i)) : i \in 1..Len(j.s)})
      [] j.t = "object" -> Ok({JString(k) : k \in DOMAIN j.o})
      [] OTHER          -> Raise("TypeError")

EmptyCategory   == [vendors |-> {}, keywords |-> {}, charges |-> {}]
EmptyExclusions == [recurring |-> EmptyCategory, spending |-> EmptyCategory]

\* data.get(category, {}).get(field, []) or []
category_field(data, category, field) ==
    LET entry == dict_get(data, category, JEmptyObject) IN
    IF entry.exc # "none" THEN entry
    ELSE LET value == dict_get(entry.val, field, JArray(<<>>)) IN
         IF value.exc # "none" THEN value ELSE Ok(OrEmptyList(value.val))

\* lines 20-22 for one category
load_category(data, category) ==
    LET fv == category_field(data, category, "vendors")
        fk == category_field(data, category, "keywords")
        fc == category_field(data, category, "charges")
    IN  IF fv.exc # "none" THEN fv
        ELSE IF LowerSet(fv.val).exc # "none" THEN LowerSet(fv.val)
        ELSE IF fk.exc # "none" THEN fk
        ELSE IF LowerSet(fk.val).exc # "none" THEN LowerSet(fk.val)
        ELSE IF fc.exc # "none" THEN fc
        ELSE IF ValueSet(fc.val).exc # "none" THEN ValueSet(fc.val)
        ELSE Ok([vendors  |-> LowerSet(fv.val).val,
                 keywords |-> LowerSet(fk.val).val,
                 charges  |-> ValueSet(fc.val).val])

\* file: [exists, valid, data]; valid says whether the text is JSON at all
load_exclusions(file) ==
    IF ~file.exists THEN Ok(EmptyExclusions)
    ELSE IF ~file.valid THEN Ok(EmptyExclusions)       \* except json.JSONDecodeError
    ELSE LET r == load_category(file.data, "recurring")
             s == load_category(file.data, "spending")
         IN  IF r.exc # "none" THEN r
             ELSE IF s.exc # "none" THEN s
             ELSE Ok([recurring |-> r.val, spending |-> s.val])

---------------------------------------------------------------------------
(* pandas values *)

Min(a, b) == IF a < b THEN a ELSE b

\* s[mask]: the rows whose index is in keep, in order
RECURSIVE Mask(_, _, _)
Mask(rows, keep, i) ==
    IF i > Len(rows) THEN <<>>
    ELSE (IF i \in keep THEN <<rows[i]>> ELSE <<>>) \o Mask(rows, keep, i + 1)

\* sorted(s, key): stable
StableSort(s, Less(_, _)) ==
    LET rank(i) == 1 + Cardinality({j \in 1..Len(s) :
                        Less(s[j], s[i]) \/ (~Less(s[i], s[j]) /\ j < i)})
    IN  [k \in 1..Len(s) |-> s[CHOOSE i \in 1..Len(s) : rank(i) = k]]

\* the elements of S in the order Less, a total order on S
SortedSeq(S, Less(_, _)) ==
    [k \in 1..Cardinality(S) |->
        CHOOSE x \in S : Cardinality({y \in S : Less(y, x)}) = k - 1]

\* the characters of the model's strings, in code point order
Ascii == " -./0123456789ABCDEFGHIJKLMNOPQRSTUVWXYZ_abcdefghijklmnopqrstuvwxyz"
OrdOf ==
    [c \in {SubSeq(Ascii, i, i) : i \in 1..Len(Ascii)} |->
        CHOOSE i \in 1..Len(Ascii) : SubSeq(Ascii, i, i) = c]
Ord(c) == OrdOf[c]

\* a < b on strings
RECURSIVE str_less(_, _)
str_less(a, b) ==
    IF b = "" THEN FALSE
    ELSE IF a = "" THEN TRUE
    ELSE IF SubSeq(a, 1, 1) = SubSeq(b, 1, 1) THEN str_less(Tail(a), Tail(b))
    ELSE Ord(SubSeq(a, 1, 1)) < Ord(SubSeq(b, 1, 1))

HasColumn(frame, name) == \E i \in 1..Len(frame.columns) : frame.columns[i] = name
ColIndex(frame, name)  == CHOOSE i \in 1..Len(frame.columns) : frame.columns[i] = name
Cell(frame, row, name) == row[ColIndex(frame, name)]

\* row with the cell of column i replaced
SetCell(row, i, value) == [row EXCEPT ![i] = value]

\* df[[names]]
Project(frame, names) ==
    [columns |-> names,
     rows    |-> [r \in 1..Len(frame.rows) |->
                    [k \in 1..Len(names) |-> Cell(frame, frame.rows[r], names[k])]]]

Digits == "0123456789"
DigitOf ==
    [c \in {SubSeq(Digits, i, i) : i \in 1..Len(Digits)} |->
        (CHOOSE i \in 1..Len(Digits) : SubSeq(Digits, i, i) = c) - 1]
IsDigit(c)  == c \in DOMAIN DigitOf
DigitVal(c) == DigitOf[c]

AllDigits(s) == \A i \in 1..Len(s) : IsDigit(SubSeq(s, i, i))

RECURSIVE ParseInt(_)
ParseInt(s) ==
    IF s = "" THEN 0
    ELSE 10 * ParseInt(SubSeq(s, 1, Len(s) - 1)) + DigitVal(SubSeq(s, Len(s), Len(s)))

ValidDate(y, m, d) == m \in 1..12 /\ d \in 1..31

\* pd.to_datetime on one cell: "YYYY-MM-DD" or "MM/DD/YYYY"
to_datetime(s) ==
    IF /\ Len(s) = 10
       /\ SubSeq(s, 5, 5) = "-" /\ SubSeq(s, 8, 8) = "-"
       /\ AllDigits(SubSeq(s, 1, 4) \o SubSeq(s, 6, 7) \o SubSeq(s, 9, 10))
       /\ ValidDate(ParseInt(SubSeq(s, 1, 4)), ParseInt(SubSeq(s, 6, 7)),
                    ParseInt(SubSeq(s, 9, 10)))
    THEN Ok(<<ParseInt(SubSeq(s, 1, 4)), ParseInt(SubSeq(s, 6, 7)),
              ParseInt(SubSeq(s, 9, 10))>>)
    ELSE IF /\ Len(s) = 10
            /\ SubSeq(s, 3, 3) = "/" /\ SubSeq(s, 6, 6) = "/"
            /\ AllDigits(SubSeq(s, 1, 2) \o SubSeq(s, 4, 5) \o SubSeq(s, 7, 10))
            /\ ValidDate(ParseInt(SubSeq(s, 7, 10)), ParseInt(SubSeq(s, 1, 2)),
                         ParseInt(SubSeq(s, 4, 5)))
    THEN Ok(<<ParseInt(SubSeq(s, 7, 10)), ParseInt(SubSeq(s, 1, 2)),
              ParseInt(SubSeq(s, 4, 5))>>)
    ELSE Raise("ValueError")

\* date.dt.to_period('M')
to_period_M(date) == <<date[1], date[2]>>

\* .astype(float) on a cell read_csv found numeric: the same amount (in cents)
astype_float(x) == x

\* drop_duplicates: the first row of each key is kept
DropDuplicates(rows, Key(_)) ==
    Mask(rows, {i \in 1..Len(rows) : \A j \in 1..(i - 1) : Key(rows[j]) # Key(rows[i])}, 1)

---------------------------------------------------------------------------
(* load_chase_statements *)

\* a file of folder_path as pd.read_csv returns it: [columns, rows]
RECURSIVE Concat(_)
Concat(frames) ==
    IF frames = <<>> THEN <<>> ELSE Head(frames).rows \o Concat(Tail(frames))

\* pd.concat(df_list, ignore_index=True).drop_duplicates(); no file: ValueError
load_chase_statements(files) ==
    IF files = <<>> THEN Raise("ValueError")
    ELSE Ok([columns |-> files[1].columns,
             rows    |-> DropDuplicates(Concat(files), LAMBDA r : r)])

---------------------------------------------------------------------------
(* clean_data *)

\* line 35: col.strip().lower().replace(" ", "_")
normalize_column(col) == str_replace_space(str_lower(str_strip(col)))

\* lines 36-40
rename_column(col) ==
    CASE col = "transaction_date" -> "date"
      [] col = "description"      -> "vendor"
      [] col = "amount"           -> "charge"
      [] OTHER                    -> col

\* line 45 without .str.lower(): the names compared as written
vendor_excluded_as_written(vendor, category_exclusions) ==
    vendor \in category_exclusions.vendors

\* lines 45-47, one mask each
vendor_excluded(vendor, category_exclusions) ==
    str_lower(vendor) \in category_exclusions.vendors

keyword_excluded(vendor, category_exclusions) ==
    \E keyword \in category_exclusions.keywords : str_contains(str_lower(vendor), keyword)

charge_excluded(charge, category_exclusions) ==
    JNumber(charge) \in category_exclusions.charges

\* line 43 with the memo in the subset: rows that differ in it are both kept
drop_duplicate_rows(frame) ==
    [frame EXCEPT !.rows = DropDuplicates(frame.rows, LAMBDA r : r)]

\* line 43: drop_duplicates(subset=['date', 'vendor', 'charge'])
drop_duplicate_transactions(frame) ==
    [frame EXCEPT !.rows = DropDuplicates(frame.rows,
        LAMBDA r : <<Cell(frame, r, "date"), Cell(frame, r, "vendor"), Cell(frame, r, "charge")>>)]

\* lines 45-47.  Series.apply on an empty Series calls nothing and returns an
\* empty Series of the same dtype, not of bool; df[...] of it is then no
\* boolean mask but a selection of no column, and line 47 finds no 'charge'.
apply_exclusions(frame, category_exclusions) ==
    LET f1 == Mask(frame.rows, {i \in 1..Len(frame.rows) :
                  ~vendor_excluded(Cell(frame, frame.rows[i], "vendor"), category_exclusions)}, 1)
        f2 == Mask(f1, {i \in 1..Len(f1) :
                  ~keyword_excluded(Cell(frame, f1[i], "vendor"), category_exclusions)}, 1)
        f3 == Mask(f2, {i \in 1..Len(f2) :
                  ~charge_excluded(Cell(frame, f2[i], "charge"), category_exclusions)}, 1)
    IN  IF f1 = <<>> THEN Raise("KeyError") ELSE Ok([frame EXCEPT !.rows = f3])

\* lines 35-43: [exc, val: the frame after line 43, arg: the caller's frame after the call]
normalize_frame(frame) ==
    LET arg     == [frame EXCEPT !.columns =
                        [i \in 1..Len(frame.columns) |-> normalize_column(frame.columns[i])]]
        renamed == [arg EXCEPT !.columns =
                        [i \in 1..Len(arg.columns) |-> rename_column(arg.columns[i])]]
    IN  IF ~HasColumn(renamed, "date") THEN [exc |-> "KeyError", val |-> None, arg |-> arg]
        ELSE IF \E i \in 1..Len(renamed.rows) :
                    to_datetime(Cell(renamed, renamed.rows[i], "date")).exc # "none"
        THEN [exc |-> "ValueError", val |-> None, arg |-> arg]
        ELSE IF ~HasColumn(renamed, "charge") \/ ~HasColumn(renamed, "vendor")
        THEN [exc |-> "KeyError", val |-> None, arg |-> arg]
        ELSE LET typed == [renamed EXCEPT !.rows = [i \in 1..Len(renamed.rows) |->
                              SetCell(SetCell(renamed.rows[i], ColIndex(renamed, "date"),
                                        to_datetime(Cell(renamed, renamed.rows[i], "date")).val),
                                      ColIndex(renamed, "charge"),
                                      astype_float(Cell(renamed, renamed.rows[i], "charge")))]]
             IN  [exc |-> "none", val |-> drop_duplicate_transactions(typed), arg |-> arg]

\* clean_data(df, exclusions, category): [exc, val: what it returns, arg: df after the call]
clean_data(frame, excl, category) ==
    LET base == normalize_frame(frame) IN
    IF base.exc # "none" THEN base
    ELSE LET kept == apply_exclusions(base.val, excl[category]) IN
         IF kept.exc # "none" THEN [exc |-> kept.exc, val |-> None, arg |-> base.arg]
         ELSE [exc |-> "none",
               val |-> Project(kept.val, <<"date", "vendor", "charge">>),
               arg |-> base.arg]

---------------------------------------------------------------------------
(* find_recurring_charges *)

\* df.groupby(['vendor', 'charge']): the keys, sorted
group_keys(frame) ==
    LET keys == {<<Cell(frame, frame.rows[i], "vendor"), Cell(frame, frame.rows[i], "charge")>> :
                    i \in 1..Len(frame.rows)}
    IN  SortedSeq(keys, LAMBDA a, b : str_less(a[1], b[1]) \/ (a[1] = b[1] /\ a[2] < b[2]))

group_rows(frame, key) ==
    Mask(frame.rows, {i \in 1..Len(frame.rows) :
            /\ Cell(frame, frame.rows[i], "vendor") = key[1]
            /\ Cell(frame, frame.rows[i], "charge") = key[2]}, 1)

\* line 56
group_months(frame, key) ==
    {to_period_M(Cell(frame, r, "date")) : r \in Range(group_rows(frame, key))}

\* line 57 with >= for >
is_recurring_from_two(months) == Cardinality(months) >= 2

\* line 57
is_recurring(months) == Cardinality(months) > 2

\* line 58
total_spent(charge, months) == charge * Cardinality(months)

\* lines 62-66: sorted(..., key=lambda x: x[2], reverse=True)
sort_recurring(groups) == StableSort(groups, LAMBDA a, b : a.total_spent > b.total_spent)

find_recurring_charges(frame) ==
    LET keys == group_keys(frame)
        kept == Mask(keys, {i \in 1..Len(keys) : is_recurring(group_months(frame, keys[i]))}, 1)
    IN  sort_recurring([i \in 1..Len(kept) |->
            [vendor      |-> kept[i][1],
             charge      |-> kept[i][2],
             total_spent |-> total_spent(kept[i][2], group_months(frame, kept[i])),
             months      |-> group_months(frame, kept[i])]])

---------------------------------------------------------------------------
(* the spending analyses *)

top_n == 25

SubscriptionKeywords == {"membership", "subscription", "renewal"}

\* line 71
is_flagged(vendor) == \E keyword \in SubscriptionKeywords : str_contains(str_lower(vendor), keyword)

\* flag_subscription_keywords(df): [val: what it returns, arg: df after the call].
\* On an empty frame the column 'flagged' is no boolean mask (see
\* apply_exclusions) and line 72 selects no column.
flag_subscription_keywords(frame) ==
    LET arg == [columns |-> (IF HasColumn(frame, "flagged") THEN frame.columns
                             ELSE Append(frame.columns, "flagged")),
                rows    |-> [i \in 1..Len(frame.rows) |->
                               IF HasColumn(frame, "flagged")
                               THEN SetCell(frame.rows[i], ColIndex(frame, "flagged"),
                                            is_flagged(Cell(frame, frame.rows[i], "vendor")))
                               ELSE Append(frame.rows[i],
                                           is_flagged(Cell(frame, frame.rows[i], "vendor")))]]
    IN  [val |-> (IF arg.rows = <<>> THEN [columns |-> <<>>, rows |-> <<>>]
                  ELSE [arg EXCEPT !.rows = Mask(arg.rows,
                            {i \in 1..Len(arg.rows) : Cell(arg, arg.rows[i], "flagged")}, 1)]),
         arg |-> arg]

RECURSIVE SumCharges(_, _)
SumCharges(frame, rows) ==
    IF rows = <<>> THEN 0
    ELSE Cell(frame, Head(rows), "charge") + SumCharges(frame, Tail(rows))

\* df.groupby('vendor')['charge'].sum().sort_values().head(top_n).reset_index()
top_vendors_by_spending(frame, n) ==
    LET rows    == frame.rows
        vendors == {Cell(frame, rows[i], "vendor") : i \in 1..Len(rows)}
        byName  == SortedSeq(vendors, LAMBDA a, b : str_less(a, b))
        sums    == [i \in 1..Len(byName) |->
                      <<byName[i], SumCharges(frame, Mask(rows,
                          {k \in 1..Len(rows) : Cell(frame, rows[k], "vendor") = byName[i]}, 1))>>]
        sorted  == StableSort(sums, LAMBDA a, b : a[2] < b[2])
    IN  [columns |-> <<"vendor", "charge">>,
         rows    |-> SubSeq(sorted, 1, Min(n, Len(sorted)))]

\* df.nsmallest(top_n, 'charge')[['vendor', 'charge']]
most_expensive_charges(frame, n) ==
    LET sorted == StableSort(frame.rows,
                      LAMBDA a, b : Cell(frame, a, "charge") < Cell(frame, b, "charge"))
    IN  Project([frame EXCEPT !.rows = SubSeq(sorted, 1, Min(n, Len(sorted)))],
                <<"vendor", "charge">>)

---------------------------------------------------------------------------
(* main *)

\* an exception, and the statement of main that raised it
NotRaised       == [exc |-> "none", at |-> "none"]
RaisedAt(e, at) == [exc |-> e, at |-> at]

\* line 118
LoadExclusions ==
    /\ pc = "load_exclusions"
    /\ LET e == load_exclusions(exclusion_file) IN
       IF e.exc = "none"
       THEN /\ exclusions' = e.val
            /\ pc' = "load_chase_statements"
            /\ raised' = raised
       ELSE /\ exclusions' = exclusions
            /\ pc' = "failed"
            /\ raised' = RaisedAt(e.exc, pc)
    /\ UNCHANGED <<exclusion_file, folder, df, df_recurring, recurring_charges, df_spending,
                   top_vendors, expensive_charges, flagged_subscriptions, other_file, other>>

\* line 119
LoadChaseStatements ==
    /\ pc = "load_chase_statements"
    /\ LET l == load_chase_statements(folder) IN
       IF l.exc = "none"
       THEN /\ df' = l.val
            /\ pc' = "clean_recurring"
            /\ raised' = raised
       ELSE /\ df' = df
            /\ pc' = "failed"
            /\ raised' = RaisedAt(l.exc, pc)
    /\ UNCHANGED <<exclusion_file, folder, exclusions, df_recurring, recurring_charges,
                   df_spending, top_vendors, expensive_charges, flagged_subscriptions,
                   other_file, other>>

\* line 121
CleanRecurring ==
    /\ pc = "clean_recurring"
    /\ LET c == clean_data(df, exclusions, "recurring") IN
       /\ df' = c.arg
       /\ IF c.exc = "none"
          THEN /\ df_recurring' = c.val
               /\ pc' = "find_recurring"
               /\ raised' = raised
          ELSE /\ df_recurring' = df_recurring
               /\ pc' = "failed"
               /\ raised' = RaisedAt(c.exc, pc)
    /\ UNCHANGED <<exclusion_file, folder, exclusions, recurring_charges, df_spending,
                   top_vendors, expensive_charges, flagged_subscriptions, other_file, other>>

\* line 122
FindRecurring ==
    /\ pc = "find_recurring"
    /\ recurring_charges' = find_recurring_charges(df_recurring)
    /\ pc' = "clean_spending"
    /\ UNCHANGED <<raised, exclusion_file, folder, exclusions, df, df_recurring, df_spending,
                   top_vendors, expensive_charges, flagged_subscriptions, other_file, other>>

\* line 124
CleanSpending ==
    /\ pc = "clean_spending"
    /\ LET c == clean_data(df, exclusions, "spending") IN
       /\ df' = c.arg
       /\ IF c.exc = "none"
          THEN /\ df_spending' = c.val
               /\ pc' = "top_vendors"
               /\ raised' = raised
          ELSE /\ df_spending' = df_spending
               /\ pc' = "failed"
               /\ raised' = RaisedAt(c.exc, pc)
    /\ UNCHANGED <<exclusion_file, folder, exclusions, df_recurring, recurring_charges,
                   top_vendors, expensive_charges, flagged_subscriptions, other_file, other>>

\* line 125
TopVendors ==
    /\ pc = "top_vendors"
    /\ top_vendors' = top_vendors_by_spending(df_spending, top_n)
    /\ pc' = "most_expensive"
    /\ UNCHANGED <<raised, exclusion_file, folder, exclusions, df, df_recurring,
                   recurring_charges, df_spending, expensive_charges, flagged_subscriptions,
                   other_file, other>>

\* line 126
MostExpensive ==
    /\ pc = "most_expensive"
    /\ expensive_charges' = most_expensive_charges(df_spending, top_n)
    /\ pc' = "flag_subscriptions"
    /\ UNCHANGED <<raised, exclusion_file, folder, exclusions, df, df_recurring,
                   recurring_charges, df_spending, top_vendors, flagged_subscriptions,
                   other_file, other>>

\* line 127
FlagSubscriptions ==
    /\ pc = "flag_subscriptions"
    /\ flagged_subscriptions' = flag_subscription_keywords(df_spending).val
    /\ df_spending' = flag_subscription_keywords(df_spending).arg
    /\ pc' = "done"
    /\ UNCHANGED <<raised, exclusion_file, folder, exclusions, df, df_recurring,
                   recurring_charges, top_vendors, expensive_charges, other_file, other>>

\* what a run left behind: where it ended, its exclusions, what it computed
NoRun == [pc |-> "none"]
ThisRun ==
    [pc                    |-> pc,
     raised                |-> raised,
     exclusions            |-> exclusions,
     recurring_charges     |-> recurring_charges,
     top_vendors           |-> top_vendors,
     expensive_charges     |-> expensive_charges,
     flagged_subscriptions |-> flagged_subscriptions]

\* main is called again, on the same folder with the file other_file
NextRun ==
    /\ pc \in {"done", "failed"}
    /\ other = NoRun
    /\ other' = ThisRun
    /\ exclusion_file' = other_file
    /\ other_file' = exclusion_file
    /\ pc' = "load_exclusions"
    /\ raised' = NotRaised
    /\ exclusions' = None
    /\ df' = None
    /\ df_recurring' = None
    /\ recurring_charges' = None
    /\ df_spending' = None
    /\ top_vendors' = None
    /\ expensive_charges' = None
    /\ flagged_subscriptions' = None
    /\ UNCHANGED folder

---------------------------------------------------------------------------
(* the inputs *)

MaxFiles     == 2   \* files in the folder
MaxRows      == 2   \* rows in one file
MaxPairRows  == 4   \* rows in the one file of the two compared runs
MaxCleanRows == 3   \* rows of the frame clean_data is applied to
MaxTx        == 6   \* transactions find_recurring_charges is applied to

\* the subsequences of universe with at most n elements
SubSeqs(universe, n) ==
    {Mask(universe, S, 1) : S \in {T \in SUBSET (1..Len(universe)) : Cardinality(T) <= n}}

Reverse(s) == [i \in 1..Len(s) |-> s[Len(s) + 1 - i]]

SeqsUpTo(S, n) == UNION {[1..k -> S] : k \in 0..n}

\* a JSON object with the fields of record f that are not Absent
Absent == [t |-> "absent"]
MakeObject(f) == JObject([k \in {x \in DOMAIN f : f[x].t # "absent"} |-> f[k]])

Strings(s) == JArray([i \in 1..Len(s) |-> JString(s[i])])
Numbers(s) == JArray([i \in 1..Len(s) |-> JNumber(s[i])])

MissingFile   == [exists |-> FALSE, valid |-> FALSE, data |-> JNull]
NotJsonFile   == [exists |-> TRUE, valid |-> FALSE, data |-> JNull]
JsonFile(j)   == [exists |-> TRUE, valid |-> TRUE, data |-> j]

\* the header of a Chase export, and the header clean_data renames it to
ChaseColumns  == <<"Transaction Date", "Description", "Amount", "Memo">>
PaddedColumns == <<" transaction date ", "DESCRIPTION", "amount", "memo">>
CleanColumns  == <<"date", "vendor", "charge", "memo">>
Transactions  == <<"date", "vendor", "charge">>

\* main: two exports that overlap, a credit, and a subscription
MainRows ==
    << <<"2024-01-05", "Netflix", -1599, "a">>,
       <<"2024-01-05", "Netflix", -1599, "b">>,
       <<"2024-01-10", "Coffee Shop", -450, "a">>,
       <<"2024-02-01", "Gym Membership", 1000, "a">> >>

MainFiles == {[columns |-> ChaseColumns, rows |-> r] : r \in SubSeqs(MainRows, MaxRows)}

MainExclusionFiles ==
    { MissingFile,
      NotJsonFile,
      JsonFile(JArray(<<>>)),
      JsonFile(MakeObject([recurring |-> MakeObject([vendors |-> Strings(<<"Coffee Shop">>)]),
                           spending  |-> MakeObject([keywords |-> Strings(<<"Net">>)])])) }

\* the compared runs: a charge of three months, a one-off, a credit
PairRows ==
    << <<"2024-01-05", "Netflix", -1599, "a">>,
       <<"2024-02-05", "Netflix", -1599, "a">>,
       <<"2024-03-05", "Netflix", -1599, "a">>,
       <<"2024-01-10", "Coffee Shop", -450, "a">>,
       <<"2024-02-01", "Gym Membership", 1000, "a">> >>

PairFolders ==
    {<<[columns |-> ChaseColumns, rows |-> r]>> : r \in SubSeqs(PairRows, MaxPairRows)}

\* the compared runs: every file gives each category none or one of three rules
PairCategories ==
    { Absent,
      MakeObject([vendors |-> Strings(<<"Coffee Shop">>)]),
      MakeObject([keywords |-> Strings(<<"Net">>), charges |-> Numbers(<<1000>>)]) }

PairFile(r, s) == JsonFile(MakeObject([recurring |-> r, spending |-> s]))

\* load_exclusions: every shape of file
VendorFields  == {Absent, JNull, Strings(<<"Netflix">>), Strings(<<"Gym", "NETFLIX">>),
                  Numbers(<<5>>), JString("ab"), JNumber(7)}
KeywordFields == {Absent, Strings(<<"Coffee">>), JEmptyObject}
ChargeFields  == {Absent, Numbers(<<-450>>), JNumber(0), JArray(<<JArray(<<>>)>>)}

CategoryEntries ==
    {Absent, JNull, JArray(<<>>), JString("recurring")}
    \cup {MakeObject([vendors |-> v, keywords |-> k, charges |-> c]) :
            v \in VendorFields, k \in KeywordFields, c \in ChargeFields}

ExclusionFiles ==
    {MissingFile, NotJsonFile, JsonFile(JNull), JsonFile(JArray(<<>>)), JsonFile(JNumber(1))}
    \cup {JsonFile(MakeObject([recurring |-> r, spending |-> s])) : r, s \in CategoryEntries}

\* clean_data: frames as load_chase_statements returns them
CleanRows ==
    << <<"2024-01-05", "Netflix", -1599, "a">>,
       <<"2024-01-05", "Netflix", -1599, "b">>,
       <<"2024-01-05", "NETFLIX INC", -1599, "a">>,
       <<"2024-02-05", "Coffee Shop", -450, "a">>,
       <<"2024-02-05", "Bakery", -450, "a">>,
       <<"soon", "Bakery", -700, "a">> >>

CleanFrames ==
    {[columns |-> c, rows |-> r] :
        c \in {ChaseColumns, PaddedColumns, CleanColumns}, r \in SubSeqs(CleanRows, MaxCleanRows)}

\* exclusions as load_exclusions returns them: lower-cased names and keywords
CategoryExclusions ==
    [vendors  : {{}, {"netflix"}},
     keywords : {{}, {"coffee"}, {"net", "bake"}},
     charges  : {{}, {JNumber(-450)}}]

\* find_recurring_charges: frames as clean_data returns them
TxRows ==
    << << <<2024, 1, 5>>,  "Netflix", -1599 >>,
       << <<2024, 1, 20>>, "Netflix", -1599 >>,
       << <<2024, 2, 5>>,  "Netflix", -1599 >>,
       << <<2024, 3, 5>>,  "Netflix", -1599 >>,
       << <<2024, 1, 7>>,  "Netflix", -999 >>,
       << <<2024, 2, 7>>,  "Netflix", -999 >>,
       << <<2024, 3, 7>>,  "Netflix", -999 >>,
       << <<2023, 1, 5>>,  "Gym", -3000 >>,
       << <<2024, 1, 5>>,  "Gym", -3000 >>,
       << <<2024, 2, 5>>,  "Gym", -3000 >> >>

TxFrames ==
    {[columns |-> Transactions, rows |-> r] :
        r \in SubSeqs(TxRows, MaxTx) \cup {Reverse(q) : q \in SubSeqs(TxRows, MaxTx)}}

---------------------------------------------------------------------------
(* the specifications *)

\* before the run: nothing assigned yet
Fresh ==
    /\ raised = NotRaised
    /\ exclusions = None
    /\ df = None
    /\ df_recurring = None
    /\ recurring_charges = None
    /\ df_spending = None
    /\ top_vendors = None
    /\ expensive_charges = None
    /\ flagged_subscriptions = None
    /\ other = NoRun

\* main(folder_path, exclusion_file)
Init ==
    /\ pc = "load_exclusions"
    /\ exclusion_file \in MainExclusionFiles
    /\ folder \in SeqsUpTo(MainFiles, MaxFiles)
    /\ other_file = None
    /\ Fresh

Next ==
    \/ LoadExclusions
    \/ LoadChaseStatements
    \/ CleanRecurring
    \/ FindRecurring
    \/ CleanSpending
    \/ TopVendors
    \/ MostExpensive
    \/ FlagSubscriptions

Spec == Init /\ [][Next]_vars

\* two runs of main on the same folder, one after the other, with files
\* that agree on the rules of a category
InitPair ==
    /\ pc = "load_exclusions"
    /\ \E r1, s1, r2, s2 \in PairCategories :
          /\ r1 = r2 \/ s1 = s2
          /\ exclusion_file = PairFile(r1, s1)
          /\ other_file = PairFile(r2, s2)
    /\ folder \in PairFolders
    /\ Fresh

NextPair == Next \/ NextRun

SpecPair == InitPair /\ [][NextPair]_vars

\* load_exclusions alone
InitExclusions ==
    /\ pc = "load_exclusions"
    /\ exclusion_file \in ExclusionFiles
    /\ folder = <<>>
    /\ other_file = None
    /\ Fresh

NextExclusions == LoadExclusions

SpecExclusions == InitExclusions /\ [][NextExclusions]_vars

\* clean_data alone, for either category
InitClean ==
    /\ pc \in {"clean_recurring", "clean_spending"}
    /\ raised = NotRaised
    /\ exclusion_file = MissingFile
    /\ folder = <<>>
    /\ exclusions \in [recurring : CategoryExclusions, spending : CategoryExclusions]
    /\ df \in CleanFrames
    /\ df_recurring = None
    /\ recurring_charges = None
    /\ df_spending = None
    /\ top_vendors = None
    /\ expensive_charges = None
    /\ flagged_subscriptions = None
    /\ other_file = None
    /\ other = NoRun

NextClean == CleanRecurring \/ CleanSpending

SpecClean == InitClean /\ [][NextClean]_vars

\* find_recurring_charges alone
InitRecurring ==
    /\ pc = "find_recurring"
    /\ raised = NotRaised
    /\ exclusion_file = MissingFile
    /\ folder = <<>>
    /\ exclusions = EmptyExclusions
    /\ df = None
    /\ df_recurring \in TxFrames
    /\ recurring_charges = None
    /\ df_spending = None
    /\ top_vendors = None
    /\ expensive_charges = None
    /\ flagged_subscriptions = None
    /\ other_file = None
    /\ other = NoRun

NextRecurring == FindRecurring

SpecRecurring == InitRecurring /\ [][NextRecurring]_vars

---------------------------------------------------------------------------
(* the properties *)

\* The columns of every input are, in this order, the date, the vendor, the
\* amount and a memo; those of a frame clean_data returned are the date, the
\* vendor and the charge.

\* the transactions of raw rows: (date, vendor, charge), each once
InputTransactions(rows) ==
    {<<to_datetime(rows[i][1]).val, rows[i][2], rows[i][3]>> : i \in 1..Len(rows)}

\* the transactions of a cleaned frame
FrameTransactions(frame) ==
    {<<frame.rows[i][1], frame.rows[i][2], frame.rows[i][3]>> : i \in 1..Len(frame.rows)}

\* one of the three exclusion rules of a category matches transaction t
RuleMatches(t, rules) ==
    \/ str_lower(t[2]) \in rules.vendors
    \/ \E k \in rules.keywords : str_contains(str_lower(t[2]), k)
    \/ JNumber(t[3]) \in rules.charges

\* what clean_data must keep of raw rows under the rules of a category
KeptTransactions(rows, rules) ==
    {t \in InputTransactions(rows) : ~RuleMatches(t, rules)}

\* C1: clean_data drops a deduplicated transaction if and only if one of the
\* three rules of the category matches it (the lower-cased vendor is in
\* vendors, a keyword is a substring of the lower-cased vendor, or the charge
\* is in charges), and keeps it otherwise: the frame it returns holds the
\* transactions no rule matches, and when it returns none (KeyError) a rule
\* matches every transaction.
C1_ExcludedIffRuleMatches ==
    /\ pc = "find_recurring" =>
          \A t \in InputTransactions(df.rows) \cup FrameTransactions(df_recurring) :
              t \in FrameTransactions(df_recurring)
                  <=> (t \in InputTransactions(df.rows) /\ ~RuleMatches(t, exclusions.recurring))
    /\ raised = RaisedAt("KeyError", "clean_recurring") =>
          \A t \in InputTransactions(df.rows) : RuleMatches(t, exclusions.recurring)
    /\ pc = "top_vendors" =>
          \A t \in InputTransactions(df.rows) \cup FrameTransactions(df_spending) :
              t \in FrameTransactions(df_spending)
                  <=> (t \in InputTransactions(df.rows) /\ ~RuleMatches(t, exclusions.spending))
    /\ raised = RaisedAt("KeyError", "clean_spending") =>
          \A t \in InputTransactions(df.rows) : RuleMatches(t, exclusions.spending)

\* clean_data ran for the spending category, dropped one transaction whose
\* vendor is written with capitals by the vendor rule, and kept another
C1_Witness ==
    /\ pc = "top_vendors"
    /\ \E t \in InputTransactions(df.rows) :
          /\ str_lower(t[2]) # t[2]
          /\ str_lower(t[2]) \in exclusions.spending.vendors
          /\ t \notin FrameTransactions(df_spending)
    /\ df_spending.rows # <<>>

\* C2: two runs of main on the same rows whose policies agree on the spending
\* slice give the same top vendors, most expensive charges and flagged
\* subscriptions; runs whose policies agree on the recurring slice give the
\* same recurring charges.  (A run gives its results when it reaches the end
\* of main.)
C2_CategoryNonInterference ==
    (pc \in {"done", "failed"} /\ other.pc # "none") =>
        /\ exclusions.spending = other.exclusions.spending =>
              /\ other.pc = pc
              /\ pc = "done" =>
                    /\ other.top_vendors = top_vendors
                    /\ other.expensive_charges = expensive_charges
                    /\ other.flagged_subscriptions = flagged_subscriptions
        /\ exclusions.recurring = other.exclusions.recurring =>
              /\ other.pc = pc
              /\ pc = "done" => other.recurring_charges = recurring_charges

\* the (vendor, charge) partitions of a cleaned frame, and their year-months
PartitionKeys(frame) == {<<t[2], t[3]>> : t \in FrameTransactions(frame)}
YearMonths(frame, key) ==
    {<<t[1][1], t[1][2]>> : t \in {u \in FrameTransactions(frame) : <<u[2], u[3]>> = key}}
Occurrences(frame, key) ==
    Cardinality({i \in 1..Len(frame.rows) :
        <<frame.rows[i][2], frame.rows[i][3]>> = key})
Emitted(groups, key) ==
    Cardinality({i \in 1..Len(groups) : <<groups[i].vendor, groups[i].charge>> = key})

\* C3: find_recurring_charges emits a group for a (vendor, charge) partition
\* if and only if its transactions fall in more than 2 distinct year-months,
\* and then exactly once.
C3_RecurringIffMoreThanTwoMonths ==
    pc = "clean_spending" =>
        /\ \A key \in PartitionKeys(df_recurring) :
              Emitted(recurring_charges, key)
                  = IF Cardinality(YearMonths(df_recurring, key)) > 2 THEN 1 ELSE 0
        /\ \A i \in 1..Len(recurring_charges) :
              <<recurring_charges[i].vendor, recurring_charges[i].charge>>
                  \in PartitionKeys(df_recurring)

\* one partition of exactly 2 year-months, left out, and one of 3, emitted
C3_Witness ==
    /\ pc = "clean_spending"
    /\ \E key \in PartitionKeys(df_recurring) :
          /\ Cardinality(YearMonths(df_recurring, key)) = 2
          /\ Emitted(recurring_charges, key) = 0
    /\ \E key \in PartitionKeys(df_recurring) :
          /\ Cardinality(YearMonths(df_recurring, key)) = 3
          /\ Emitted(recurring_charges, key) = 1

\* C4: the total_spent of every recurring group is its charge times the
\* number of transactions of its partition.
C4_TotalIsChargeTimesOccurrences ==
    pc = "clean_spending" =>
        \A i \in 1..Len(recurring_charges) :
            recurring_charges[i].total_spent
                = recurring_charges[i].charge
                    * Occurrences(df_recurring,
                        <<recurring_charges[i].vendor, recurring_charges[i].charge>>)

\* C10: find_recurring_charges returns its groups by total_spent ascending.
C10_SortedAscending ==
    pc = "clean_spending" =>
        \A i, j \in 1..Len(recurring_charges) :
            i < j => recurring_charges[i].total_spent <= recurring_charges[j].total_spent

\* the sum of the strictly negative charges of a vendor in a cleaned frame
RECURSIVE NegativeSum(_, _)
NegativeSum(rows, vendor) ==
    IF rows = <<>> THEN 0
    ELSE (IF Head(rows)[2] = vendor /\ Head(rows)[3] < 0 THEN Head(rows)[3] ELSE 0)
         + NegativeSum(Tail(rows), vendor)

\* C5: every row of most_expensive_charges has a negative charge, and every
\* total of top_vendors_by_spending is the sum of the vendor's negative
\* charges, of a vendor that has one.
C5_OnlyNegativeCharges ==
    /\ pc \in {"flag_subscriptions", "done"} =>
          \A i \in 1..Len(expensive_charges.rows) : expensive_charges.rows[i][2] < 0
    /\ pc \in {"most_expensive", "flag_subscriptions", "done"} =>
          \A i \in 1..Len(top_vendors.rows) :
              /\ top_vendors.rows[i][2] = NegativeSum(df_spending.rows, top_vendors.rows[i][1])
              /\ \E k \in 1..Len(df_spending.rows) :
                    /\ df_spending.rows[k][2] = top_vendors.rows[i][1]
                    /\ df_spending.rows[k][3] < 0

\* C6: the rules of both categories are applied to the same base, which
\* holds every distinct (date, vendor, charge) of the input rows once: each
\* cleaned frame is that base without the transactions its category excludes.
C6_SameDeduplicatedBase ==
    pc \in {"top_vendors", "most_expensive", "flag_subscriptions", "done"} =>
        /\ FrameTransactions(df_recurring) = KeptTransactions(Concat(folder), exclusions.recurring)
        /\ Len(df_recurring.rows) = Cardinality(FrameTransactions(df_recurring))
        /\ FrameTransactions(df_spending) = KeptTransactions(Concat(folder), exclusions.spending)
        /\ Len(df_spending.rows) = Cardinality(FrameTransactions(df_spending))

\* two files that repeat a transaction, and two categories that keep
\* different transactions of it
C6_Witness ==
    /\ pc = "done"
    /\ Len(folder) = 2
    /\ Len(Concat(folder)) > Cardinality(InputTransactions(Concat(folder)))
    /\ Len(df.rows) > Cardinality(InputTransactions(Concat(folder)))
    /\ FrameTransactions(df_recurring) # FrameTransactions(df_spending)
    /\ df_recurring.rows # <<>>
    /\ df_spending.rows # <<>>

\* a list of strings, of numbers
IsListOf(j, tag) == j.t = "array" /\ \A i \in 1..Len(j.a) : j.a[i].t = tag

\* a record of the expected shape: optional lists vendors, keywords, charges
ExpectedShape(entry) ==
    /\ entry.t = "object"
    /\ "vendors" \in DOMAIN entry.o => IsListOf(entry.o["vendors"], "string")
    /\ "keywords" \in DOMAIN entry.o => IsListOf(entry.o["keywords"], "string")
    /\ "charges" \in DOMAIN entry.o => IsListOf(entry.o["charges"], "number")

Malformed(file) ==
    \/ ~file.exists
    \/ ~file.valid
    \/ file.data.t # "object"
    \/ \E category \in {"recurring", "spending"} \cap DOMAIN file.data.o :
          ~ExpectedShape(file.data.o[category])

\* C7: for an absent or malformed policy source load_exclusions returns the
\* empty policy and the run goes on.
C7_MalformedGivesEmptyPolicy ==
    (pc # "load_exclusions" /\ Malformed(exclusion_file)) =>
        /\ raised = NotRaised
        /\ exclusions = EmptyExclusions

\* C8: with no file or no row in the folder the run raises nothing in
\* loading and cleaning, and every analysis returns an empty result.
C8_EmptyInputGivesEmptyResults ==
    Concat(folder) = <<>> =>
        /\ raised.at \notin {"load_chase_statements", "clean_recurring", "clean_spending"}
        /\ pc = "done" =>
              /\ recurring_charges = <<>>
              /\ top_vendors.rows = <<>>
              /\ expensive_charges.rows = <<>>
              /\ flagged_subscriptions.rows = <<>>

\* C9: clean_data and flag_subscription_keywords leave the frame passed to
\* them as it was.
C9_ArgumentsUnchanged ==
    [][/\ pc \in {"clean_recurring", "clean_spending"} => df' = df
       /\ pc = "flag_subscriptions" => df_spending' = df_spending]_vars

=============================================================================
